---- MODULE Spec2Model ----
(***************************************************************************)
(* meowdict: the response normalisation of src/api.rs (format_result and   *)
(* its extraction helpers, get_result) and the console command loop of     *)
(* src/console.rs (create_console, args_runner, set_console_mode).         *)
(***************************************************************************)
EXTENDS Integers, Sequences, FiniteSets, TLC

VARIABLES
    \* ---- src/api.rs, format_result
    npc,            \* "input" before format_result ran, "done" after
    json,           \* the parsed top-level object handed to format_result
    result,         \* what format_result produced (a MoedictResult or a panic)
    \* ---- src/api.rs, get_result
    fpc,            \* "idle" before get_result ran, "done" after
    keyword,        \* the keyword of the lookup
    response,       \* the outcome of the HTTP fetch: an error or the body text
    parser_input,   \* the text handed to serde_json::from_str, if it was called
    calls,          \* the functions get_result reached, in order
    lookup,         \* what get_result returned
    \* ---- src/console.rs, MeowdictConsole
    pc,             \* "prompt" (in readline), "ran" (a line was handled), "exit"
    input_s2t,      \* MeowdictConsole.input_s2t
    result_t2s,     \* MeowdictConsole.result_t2s
    argument,       \* the tokens of the line just handled
    pre,            \* the two session flags as they were when the line was read
    outcome,        \* what args_runner returned for the line
    queries,        \* the search_word_to_* calls the line made, in order
    printed_error,  \* whether the dispatched query's error was printed
    last_mode       \* per session flag, the most recent set/unset consumed so far

nvars == <<npc, json, result>>
fvars == <<fpc, keyword, response, parser_input, calls, lookup>>
cvars == <<pc, input_s2t, result_t2s, argument, pre, outcome, queries,
           printed_error, last_mode>>
vars == <<nvars, fvars, cvars>>

(***************************************************************************)
(* serde_json::Value.  An object is a function from its keys to values, an *)
(* array a sequence of values.                                             *)
(***************************************************************************)
Null == [kind |-> "null"]
Num(n) == [kind |-> "number", n |-> n]
Str(s) == [kind |-> "string", s |-> s]
Arr(a) == [kind |-> "array", a |-> a]
Obj(o) == [kind |-> "object", o |-> o]

\* Option<T> and Result<T>; a panic is the third way a call can end.
None == [some |-> FALSE]
Some(v) == [some |-> TRUE, v |-> v]
Ok(v) == [st |-> "Ok", val |-> v]
Err(msg) == [st |-> "Err", msg |-> msg]
Panic == [st |-> "Panic"]

\* `match r { Ok(v) => Some(v), Err(_) => None }`
ok_or_none(r) == IF r.st = "Ok" THEN Some(r.val) ELSE None

(***************************************************************************)
(* IndexMap<String, Vec<Vec<String>>>: entries in insertion order.         *)
(***************************************************************************)
map_index(m, t) ==
    IF \E i \in 1..Len(m) : m[i].key = t
    THEN CHOOSE i \in 1..Len(m) : m[i].key = t
    ELSE 0

map_get(m, t) == IF map_index(m, t) = 0 THEN None ELSE Some(m[map_index(m, t)].val)

map_insert(m, t, v) ==
    IF map_index(m, t) = 0
    THEN Append(m, [key |-> t, val |-> v])
    ELSE [m EXCEPT ![map_index(m, t)].val = v]

\* get_h
get_h(j) ==
    IF "h" \notin DOMAIN j THEN Err("Failed to get dict!")
    ELSE IF j["h"].kind # "array" THEN Err("dict is not array!")
    ELSE Ok(j["h"].a)

\* get_translations; the languages are kept as a function from language to strings
get_translations(j) ==
    IF "translation" \notin DOMAIN j THEN Err("This item has no translation!")
    ELSE IF j["translation"].kind # "object" THEN Err("translation is not Object!")
    ELSE LET translation == j["translation"].o IN
         IF \E lang \in DOMAIN translation : translation[lang].kind # "array"
         THEN Err("lang_value is not Array!")
         ELSE IF \E lang \in DOMAIN translation :
                    \E i \in 1..Len(translation[lang].a) :
                        translation[lang].a[i].kind # "string"
         THEN Err("lang_value item is not String!")
         ELSE Ok([lang \in DOMAIN translation |->
                    [i \in 1..Len(translation[lang].a) |-> translation[lang].a[i].s]])

\* get_pinyin and get_bopomofo: the string at `key` of an object
get_str(dict_val, key, missing) ==
    IF dict_val.kind # "object" THEN Err("dict item is not object!")
    ELSE IF key \notin DOMAIN dict_val.o THEN Err(missing)
    ELSE IF dict_val.o[key].kind # "string" THEN Err("not String!")
    ELSE Ok(dict_val.o[key].s)

get_pinyin(dict_val) == get_str(dict_val, "p", "Caanot get d!")

get_bopomofo(dict_val) == get_str(dict_val, "b", "Caanot get b!")

(***************************************************************************)
(* get_defination.  `count` is the one index the loop keeps: it is zeroed  *)
(* when a tag is first seen and incremented once per item of `d`, whatever *)
(* the item's tag; the strings of an item go to group [count] of its tag.  *)
(***************************************************************************)
\* item_tag with another default than the one of line 134
item_tag_untyped(dict_item) ==
    IF "type" \in DOMAIN dict_item THEN dict_item["type"].s ELSE "untyped"

\* the tag of a `d` item whose `type`, if present, is a string (lines 130-135)
item_tag(dict_item) ==
    IF "type" \in DOMAIN dict_item THEN dict_item["type"].s ELSE "notype"

\* lines 130-132: `type` is present and v.as_str() is None
type_is_bad(dict_item) ==
    "type" \in DOMAIN dict_item /\ dict_item["type"].kind # "string"

\* lines 136-141: a new group for tag t, and the index the strings will use
open_group(m, t, count) ==
    IF map_get(m, t) = None
    THEN [m |-> map_insert(m, t, << <<>> >>), count |-> 0]
    ELSE [m |-> map_insert(m, t, Append(map_get(m, t).v, <<>>)), count |-> count]

\* `defination_item.get_mut(t).unwrap()[count].push(s)`: Vec indexing panics
\* when count is not below the number of groups
push_at(m, t, count, s) ==
    LET groups == map_get(m, t).v IN
    IF count >= Len(groups) THEN Panic
    ELSE Ok(map_insert(m, t, [groups EXCEPT ![count + 1] = Append(@, s)]))

\* lines 142-148: the receiver [count] is evaluated before the argument's `?`
push_f(m, t, count, dict_item) ==
    IF "f" \notin DOMAIN dict_item THEN Ok(m)
    ELSE IF count >= Len(map_get(m, t).v) THEN Panic
    ELSE IF dict_item["f"].kind # "string" THEN Err("This item is not String!")
    ELSE push_at(m, t, count, dict_item["f"].s)

\* lines 154-158: the string elements of one array, in order
RECURSIVE push_list(_, _, _, _, _)
push_list(acc, t, count, item_list, j) ==
    IF acc.st # "Ok" \/ j > Len(item_list) THEN acc
    ELSE IF item_list[j].kind = "string"
         THEN push_list(push_at(acc.val, t, count, item_list[j].s), t, count, item_list, j + 1)
         ELSE push_list(acc, t, count, item_list, j + 1)

\* lines 150-159: one of the keys q, e, l
push_key(acc, t, count, dict_item, i) ==
    IF acc.st # "Ok" \/ i \notin DOMAIN dict_item THEN acc
    ELSE IF dict_item[i].kind # "array" THEN Err("This item is not arrays!")
    ELSE push_list(acc, t, count, dict_item[i].a, 1)

\* lines 126-162: the loop over the items of `d`
RECURSIVE def_loop(_, _, _, _)
def_loop(dicts_item, k, defination_item, count) ==
    IF k > Len(dicts_item) THEN Ok(defination_item)
    ELSE IF dicts_item[k].kind # "object" THEN Err("d item is not object!")
    ELSE LET dict_item == dicts_item[k].o IN
         IF type_is_bad(dict_item) THEN Err("This item is not String!")
         ELSE LET t == item_tag(dict_item)
                  g == open_group(defination_item, t, count)
                  after == push_key(push_key(push_key(push_f(g.m, t, g.count, dict_item),
                                t, g.count, dict_item, "q"),
                                t, g.count, dict_item, "e"),
                                t, g.count, dict_item, "l")
              IN IF after.st # "Ok" THEN after
                 ELSE def_loop(dicts_item, k + 1, after.val, g.count + 1)

get_defination(dict_val) ==
    IF dict_val.kind # "object" THEN Err("dict item is not object!")
    ELSE IF "d" \notin DOMAIN dict_val.o THEN Err("Cannot find d!")
    ELSE IF dict_val.o["d"].kind # "array" THEN Err("d is not array!")
    ELSE def_loop(dict_val.o["d"].a, 1, <<>>, 0)

\* format_result: a panic of get_defination unwinds through it
format_result(j) ==
    LET dict == ok_or_none(get_h(j))
        translation == ok_or_none(get_translations(j))
        senses == IF dict.some THEN dict.v ELSE <<>>
    IN IF \E i \in 1..Len(senses) : get_defination(senses[i]).st = "Panic"
       THEN Panic
       ELSE Ok([moedict_item_result |->
                    [i \in 1..Len(senses) |->
                        [pinyin |-> ok_or_none(get_pinyin(senses[i])),
                         bopomofo |-> ok_or_none(get_bopomofo(senses[i])),
                         defination |-> ok_or_none(get_defination(senses[i]))]],
                translation |-> translation])

(***************************************************************************)
(* The parsed objects format_result is applied to.                         *)
(***************************************************************************)
MaxItems == 4       \* items of a `d` array of well-formed items
MaxMixed == 2       \* items of a `d` array that may hold malformed items
MaxSenses == 2      \* senses of an `h` array

SeqsUpTo(S, n) == UNION {[1..k -> S] : k \in 0..n}

WellItems ==
    { Obj([type |-> Str("v"), f |-> Str("run")]),
      Obj([type |-> Str("v"), q |-> Arr(<<Str("fast")>>)]),
      Obj([type |-> Str("n"), f |-> Str("cat"), q |-> Arr(<<Num(7), Str("q1")>>),
           e |-> Arr(<<Str("e1")>>), l |-> Arr(<<Str("l1")>>)]),
      Obj([type |-> Str("n")]),
      Obj([f |-> Str("x")]),
      Obj([type |-> Str("notype"), q |-> Arr(<<Num(7)>>)]) }

BadItems ==
    { Num(5),
      Obj([type |-> Num(3), f |-> Str("x")]),
      Obj([type |-> Null]),
      Obj([type |-> Str("v"), f |-> Num(3)]),
      Obj([type |-> Str("n"), q |-> Str("s")]) }

DArrays == SeqsUpTo(WellItems, MaxItems) \cup SeqsUpTo(WellItems \cup BadItems, MaxMixed)

\* one sense carrying the `d` array under study
DeepInputs ==
    {[h |-> Arr(<<Obj([p |-> Str("pin"), b |-> Str("bo"), d |-> Arr(a)])>>)] : a \in DArrays}

\* a `d` array of four well-formed items on which get_defination panics
PanicD ==
    Arr(<<Obj([type |-> Str("v"), f |-> Str("run")]), Obj([type |-> Str("n")]),
          Obj([type |-> Str("n")]), Obj([type |-> Str("v"), f |-> Str("run")])>>)

PVals == {Null, Num(1), Str("pin")}
BVals == {Null, Num(2), Str("bo")}
DVals == {Null, Num(3), Arr(<<Obj([f |-> Str("x")])>>), Arr(<<Obj([type |-> Num(3)])>>), PanicD}

\* a sense object with the keys whose value is not Null (Null stands for a missing key here)
MkSense(p, b, d) ==
    Obj([k \in {x \in {"p", "b", "d"} :
                    (x = "p" /\ p # Null) \/ (x = "b" /\ b # Null) \/ (x = "d" /\ d # Null)} |->
            IF k = "p" THEN p ELSE IF k = "b" THEN b ELSE d])

Senses == {MkSense(p, b, d) : p \in PVals, b \in BVals, d \in DVals} \cup {Num(9)}

SenseInputs == {[h |-> Arr(a)] : a \in SeqsUpTo(Senses, MaxSenses)}

TranslationVals ==
    { Num(4),
      Obj([English |-> Arr(<<Str("cat"), Str("puss")>>), francais |-> Arr(<<>>)]),
      Obj([English |-> Str("cat")]),
      Obj([English |-> Arr(<<Str("cat"), Num(1)>>)]) }

TopInputs ==
    LET hs == {Num(0), Str("h"), Obj([p |-> Str("pin")]), Arr(<<>>),
               Arr(<<MkSense(Str("pin"), Null, Arr(<<>>))>>)}
    IN  {<<>>} \cup {[h |-> h] : h \in hs}
        \cup {[translation |-> t] : t \in TranslationVals}
        \cup {[h |-> h, translation |-> t] : h \in hs, t \in TranslationVals}

JsonInputs == DeepInputs \cup SenseInputs \cup TopInputs

(***************************************************************************)
(* Specification of the normalisation: format_result applied to an object. *)
(***************************************************************************)
FetchIdle ==
    /\ fpc = "idle" /\ keyword = "" /\ response = None
    /\ parser_input = None /\ calls = <<>> /\ lookup = None

\* the console before its first line; the constructor is not part of these
\* sources, both session flags start disabled
ConsoleIdle ==
    /\ pc = "prompt" /\ input_s2t = FALSE /\ result_t2s = FALSE
    /\ argument = <<>> /\ pre = [input_s2t |-> FALSE, result_t2s |-> FALSE]
    /\ outcome = None /\ queries = <<>> /\ printed_error = FALSE
    /\ last_mode = [input_s2t |-> "none", result_t2s |-> "none"]

NormIdle == npc = "input" /\ json = <<>> /\ result = None

InitNorm ==
    /\ npc = "input" /\ json \in JsonInputs /\ result = None
    /\ FetchIdle /\ ConsoleIdle

FormatResult ==
    /\ npc = "input"
    /\ result' = format_result(json)
    /\ npc' = "done"
    /\ UNCHANGED <<json, fvars, cvars>>

NextNorm == FormatResult

SpecNorm == InitNorm /\ [][NextNorm]_vars

(***************************************************************************)
(* What the claims say of a raw object, read off the object itself.        *)
(***************************************************************************)
SensesOf(j) == IF "h" \in DOMAIN j /\ j["h"].kind = "array" THEN j["h"].a ELSE <<>>

HasDArray(s) == s.kind = "object" /\ "d" \in DOMAIN s.o /\ s.o["d"].kind = "array"

IsStringAt(o, k) == k \in DOMAIN o /\ o[k].kind = "string"

\* an item whose f, q, e, l have the expected types, whatever its `type`
GoodBody(item) ==
    /\ item.kind = "object"
    /\ "f" \in DOMAIN item.o => item.o["f"].kind = "string"
    /\ \A k \in {"q", "e", "l"} : k \in DOMAIN item.o => item.o[k].kind = "array"

WellFormed(item) ==
    GoodBody(item) /\ ("type" \in DOMAIN item.o => item.o["type"].kind = "string")

BadType(item) ==
    item.kind = "object" /\ "type" \in DOMAIN item.o /\ item.o["type"].kind # "string"

NoType(item) == item.kind = "object" /\ "type" \notin DOMAIN item.o

IsString(x) == x.kind = "string"

StringsIn(o, k) ==
    IF k \in DOMAIN o /\ o[k].kind = "array"
    THEN LET sel == SelectSeq(o[k].a, IsString) IN [i \in 1..Len(sel) |-> sel[i].s]
    ELSE <<>>

\* the f string, then the string elements of q, e and l
ItemStrings(item) ==
    (IF IsStringAt(item.o, "f") THEN <<item.o["f"].s>> ELSE <<>>)
        \o StringsIn(item.o, "q") \o StringsIn(item.o, "e") \o StringsIn(item.o, "l")

\* the tag as claim C4 states it: "notype" when `type` is missing or not a string
ClaimedTag(item) == IF IsStringAt(item.o, "type") THEN item.o["type"].s ELSE "notype"

\* the tag as the code has it: an item whose `type` is not a string has none
StringTag(item) == IF "type" \in DOMAIN item.o THEN item.o["type"].s ELSE "notype"

TagsOf(d) == {ClaimedTag(d[i]) : i \in 1..Len(d)}

ItemsTagged(d, T) ==
    LET Test(item) == ClaimedTag(item) = T IN SelectSeq(d, Test)

ExpectedGroups(d, T) ==
    [k \in 1..Len(ItemsTagged(d, T)) |-> ItemStrings(ItemsTagged(d, T)[k])]

GroupsUnder(m, T) ==
    IF \E i \in 1..Len(m) : m[i].key = T
    THEN m[CHOOSE i \in 1..Len(m) : m[i].key = T].val
    ELSE <<>>

KeysIn(m) == {m[i].key : i \in 1..Len(m)}

AllWellFormed(d) == \A i \in 1..Len(d) : WellFormed(d[i])

Done == npc = "done"

Entries == result.val.moedict_item_result

\* C1: format_result is total: whatever the shape of the object it returns a
\* MoedictResult (no error, no panic), with no entries when `h` is missing or
\* not an array.
C1_NormalizationTotal ==
    Done =>
        /\ result.st = "Ok"
        /\ Len(Entries) = Len(SensesOf(json))

\* C2: whenever a mapping is returned for a `d` array of well-formed items, the
\* k-th group under tag T holds exactly the f string and then the strings of q, e
\* and l of the k-th item tagged T.
C2_GroupHoldsItsOwnItem ==
    (Done /\ result.st = "Ok") =>
        \A i \in 1..Len(SensesOf(json)) :
            LET s == SensesOf(json)[i] IN
            (HasDArray(s) /\ AllWellFormed(s.o["d"].a) /\ Entries[i].defination.some) =>
                \A T \in TagsOf(s.o["d"].a) :
                    GroupsUnder(Entries[i].defination.v, T) = ExpectedGroups(s.o["d"].a, T)

\* C4 as stated: an item whose `type` is missing or not a string is grouped
\* under "notype" and the definitions stay present (items otherwise well-formed,
\* runs that do not panic).
C4_NonStringTypeIsNotype ==
    (Done /\ result.st = "Ok") =>
        \A i \in 1..Len(SensesOf(json)) :
            LET s == SensesOf(json)[i] IN
            (HasDArray(s) /\ \A k \in 1..Len(s.o["d"].a) : GoodBody(s.o["d"].a[k])) =>
                /\ Entries[i].defination.some
                /\ \A T \in TagsOf(s.o["d"].a) :
                      Len(GroupsUnder(Entries[i].defination.v, T))
                          = Len(ItemsTagged(s.o["d"].a, T))

\* `d` with every missing `type` written out as the string "notype"
ExplicitNotype(s) ==
    Obj([s.o EXCEPT !["d"] =
        Arr([k \in 1..Len(s.o["d"].a) |->
                IF NoType(s.o["d"].a[k])
                THEN Obj([key \in DOMAIN s.o["d"].a[k].o \cup {"type"} |->
                            IF key = "type" THEN Str("notype") ELSE s.o["d"].a[k].o[key]])
                ELSE s.o["d"].a[k]])])

\* C4 as amended: the tag is the value of `type` when it is a string and "notype"
\* when `type` is missing, a missing `type` being handled exactly as
\* type:"notype"; an item whose `type` is present but not a string is not grouped:
\* the definitions of its sense are never present.  Whenever definitions are
\* present each tag has one group per item carrying it.
C4_TagIsTypeOrNotypeWhenMissing ==
    Done =>
        \A i \in 1..Len(SensesOf(json)) :
            LET s == SensesOf(json)[i] IN
            HasDArray(s) =>
                /\ (\E k \in 1..Len(s.o["d"].a) : BadType(s.o["d"].a[k]))
                      => ~(result.st = "Ok" /\ Entries[i].defination.some)
                /\ (result.st = "Ok") =>
                      Entries[i].defination = ok_or_none(get_defination(ExplicitNotype(s)))
                /\ (result.st = "Ok" /\ Entries[i].defination.some) =>
                      /\ KeysIn(Entries[i].defination.v)
                            = {StringTag(s.o["d"].a[k]) : k \in 1..Len(s.o["d"].a)}
                      /\ \A T \in KeysIn(Entries[i].defination.v) :
                            Len(GroupsUnder(Entries[i].defination.v, T))
                              = Cardinality({k \in 1..Len(s.o["d"].a) :
                                                StringTag(s.o["d"].a[k]) = T})

\* C4 witness: one sense's item without `type` was grouped under "notype" while
\* a sibling sense with a non-string `type` lost its definitions.
C4_Witness ==
    /\ Done /\ result.st = "Ok"
    /\ \E i, j \in 1..Len(SensesOf(json)) :
          /\ HasDArray(SensesOf(json)[i]) /\ HasDArray(SensesOf(json)[j])
          /\ \E k \in 1..Len(SensesOf(json)[i].o["d"].a) : NoType(SensesOf(json)[i].o["d"].a[k])
          /\ Entries[i].defination.some
          /\ GroupsUnder(Entries[i].defination.v, "notype") = << <<"x">> >>
          /\ \E k \in 1..Len(SensesOf(json)[j].o["d"].a) : BadType(SensesOf(json)[j].o["d"].a[k])
          /\ ~Entries[j].defination.some

\* what a field of an entry is when it depends on its own key alone
OwnString(s, key) ==
    IF s.kind = "object" /\ IsStringAt(s.o, key) THEN Some(s.o[key].s) ELSE None

SameD(s1, s2) ==
    /\ s1.kind = "object" /\ s2.kind = "object"
    /\ ("d" \in DOMAIN s1.o) = ("d" \in DOMAIN s2.o)
    /\ "d" \in DOMAIN s1.o => s1.o["d"] = s2.o["d"]

\* C5: every sense gets an entry whose pinyin, bopomofo and definitions each
\* depend on their own key only: pinyin is the string at p or absent, bopomofo
\* the string at b or absent, and two senses with the same d have the same
\* definitions, whatever the other keys and the sibling senses hold.
C5_FieldsIsolated ==
    Done =>
        /\ result.st = "Ok"
        /\ Len(Entries) = Len(SensesOf(json))
        /\ \A i \in 1..Len(SensesOf(json)) :
              /\ Entries[i].pinyin = OwnString(SensesOf(json)[i], "p")
              /\ Entries[i].bopomofo = OwnString(SensesOf(json)[i], "b")
              /\ \A j \in 1..Len(SensesOf(json)) :
                    SameD(SensesOf(json)[i], SensesOf(json)[j])
                        => Entries[i].defination = Entries[j].defination

\* C9: whenever d is an array (of well-formed items) the definitions are present,
\* with one group per raw item under the item's tag, no key for a tag that never
\* occurs and an empty mapping for an empty array.
C9_OneGroupPerItem ==
    Done =>
        \A i \in 1..Len(SensesOf(json)) :
            LET s == SensesOf(json)[i] IN
            (HasDArray(s) /\ AllWellFormed(s.o["d"].a)) =>
                /\ result.st = "Ok"
                /\ Entries[i].defination.some
                /\ KeysIn(Entries[i].defination.v) = TagsOf(s.o["d"].a)
                /\ \A T \in TagsOf(s.o["d"].a) :
                      Len(GroupsUnder(Entries[i].defination.v, T))
                          = Len(ItemsTagged(s.o["d"].a, T))

(***************************************************************************)
(* get_result and request_moedict.  A response body is a sequence of       *)
(* pieces of text; its content is their concatenation.  Among the pieces   *)
(* below the marker of line 60 occurs in a text exactly where its two      *)
(* halves are adjacent, and `~` and backtick occur only as pieces.         *)
(***************************************************************************)
MaxPieces == 4      \* pieces of a response body

\* the piece that is the one character U+0060, which a TLA+ string cannot hold
Backtick == "BACKTICK"

Marker == <<"<title>404 Not", " Found</title>">>

Pieces == {"~", Backtick, "<title>404 Not", " Found</title>", "{}", "{\"h\":[]}"}

Keywords == {"zzzNoSuchWord", "cat"}

\* str::replace(c, ""): the text without the pieces equal to c
replace_empty(text, c) ==
    LET Keep(x) == x # c IN SelectSeq(text, Keep)

\* str::contains
contains(text, pat) ==
    \E i \in 0..(Len(text) - Len(pat)) : SubSeq(text, i + 1, i + Len(pat)) = pat

\* request_moedict looking for the marker before it strips
request_moedict_check_first(kw, resp) ==
    IF resp.st # "Ok" THEN resp
    ELSE IF contains(resp.val, Marker)
         THEN Err(<<"Could not find keyword: ", kw>>)
         ELSE Ok(replace_empty(replace_empty(resp.val, "~"), Backtick))

\* request_moedict; resp is what reqwest::blocking::get(..)?.text()? gave
request_moedict(kw, resp) ==
    IF resp.st # "Ok" THEN resp
    ELSE LET r == replace_empty(replace_empty(resp.val, "~"), Backtick) IN
         IF contains(r, Marker)
         THEN Err(<<"Could not find keyword: ", kw>>)
         ELSE Ok(r)

\* serde_json::from_str::<HashMap<String, Value>> on the texts the pieces make
from_str(text) ==
    IF text = <<"{}">> THEN Ok(<<>>)
    ELSE IF text = <<"{\"h\":[]}">> THEN Ok([h |-> Arr(<<>>)])
    ELSE Err(<<"serde_json error">>)

Responses == {Err(<<"reqwest error">>)} \cup {Ok(t) : t \in SeqsUpTo(Pieces, MaxPieces)}

InitFetch == NormIdle /\ FetchIdle /\ ConsoleIdle

\* get_result(keyword), from the call to its return
GetResult(kw, http) ==
    /\ fpc = "idle"
    /\ keyword' = kw
    /\ response' = http
    /\ LET resp == request_moedict(kw, http)
           parsed == from_str(resp.val)
           formatted == format_result(parsed.val)
       IN  IF resp.st # "Ok"
           THEN /\ lookup' = resp
                /\ parser_input' = None
                /\ calls' = <<"request_moedict">>
           ELSE IF parsed.st # "Ok"
           THEN /\ lookup' = parsed
                /\ parser_input' = Some(resp.val)
                /\ calls' = <<"request_moedict", "serde_json::from_str">>
           ELSE /\ lookup' = formatted
                /\ parser_input' = Some(resp.val)
                /\ calls' = <<"request_moedict", "serde_json::from_str", "format_result">>
    /\ fpc' = "done"
    /\ UNCHANGED <<nvars, cvars>>

\* the caller is done with the result and may look up again
NextLookup ==
    /\ fpc = "done"
    /\ fpc' = "idle" /\ keyword' = "" /\ response' = None
    /\ parser_input' = None /\ calls' = <<>> /\ lookup' = None
    /\ UNCHANGED <<nvars, cvars>>

NextFetch ==
    \/ fpc = "idle" /\ \E kw \in Keywords, http \in Responses : GetResult(kw, http)
    \/ NextLookup

SpecFetch == InitFetch /\ [][NextFetch]_vars

\* the body as fetched holds the marker once `~` and backtick are dropped
MarkerAfterStrip(text) ==
    LET Plain(x) == x \notin {"~", Backtick}
        t == SelectSeq(text, Plain)
    IN  \E i \in 1..(Len(t) - 1) : t[i] = "<title>404 Not" /\ t[i + 1] = " Found</title>"

\* C8: when the fetched text, `~` and backtick stripped, contains the 404 marker,
\* get_result ends with the not-found error carrying the keyword and reaches
\* neither the JSON parser nor format_result; otherwise the text handed to the
\* parser holds no `~` and no backtick.
C8_NotFoundSkipsParsing ==
    (fpc = "done" /\ response.st = "Ok") =>
        IF MarkerAfterStrip(response.val)
        THEN /\ lookup = Err(<<"Could not find keyword: ", keyword>>)
             /\ calls = <<"request_moedict">>
             /\ parser_input = None
        ELSE /\ parser_input.some
             /\ calls[2] = "serde_json::from_str"
             /\ \A i \in 1..Len(parser_input.v) : parser_input.v[i] \notin {"~", Backtick}

\* C8 witness: the marker appears only once a `~` inside it is stripped, and the
\* lookup ended not-found without parsing.
C8_Witness ==
    /\ fpc = "done" /\ response.st = "Ok"
    /\ ~contains(response.val, Marker)
    /\ \E i \in 1..Len(response.val) : response.val[i] = "~"
    /\ lookup = Err(<<"Could not find keyword: ", "zzzNoSuchWord">>)
    /\ calls = <<"request_moedict">>

(***************************************************************************)
(* The console of src/console.rs.  A line is a sequence of tokens drawn    *)
(* from the vocabulary below: the thirteen flags args_runner knows, two it *)
(* does not, and two search words.                                         *)
(***************************************************************************)
MaxTokens == 3      \* tokens of a line

KnownFlags ==
    {"--input-s2t", "-i", "--result-t2s", "-r", "--translation", "-t", "--jyutping", "-j",
     "--set-mode-input-s2t", "--set-mode-result-t2s", "--unset-mode-input-s2t",
     "--unset-mode-result-t2s", "--unset-mode-all"}

UnknownFlags == {"-x", "--bogus"}

\* "hans" stands for a word in simplified script, "hant" for its traditional form
Words == {"hans", "hant"}

Tokens == KnownFlags \cup UnknownFlags \cup Words

Lines == SeqsUpTo(Tokens, MaxTokens)

\* str::starts_with('-') on the tokens of the vocabulary
starts_with_dash(x) == x \in KnownFlags \cup UnknownFlags

\* opencc_convert(word, OpenccConvertMode::S2T) of crate::formatter
opencc_convert_S2T(x) == IF x = "hans" THEN "hant" ELSE x

\* argument_spliter
argument_spliter(line) ==
    LET IsArg(x) == starts_with_dash(x)
        IsWord(x) == ~starts_with_dash(x)
    IN  [args |-> SelectSeq(line, IsArg), words |-> SelectSeq(line, IsWord)]

\* set_console_mode with the T2S arm writing the field of the S2T arm
set_console_mode_one_field(c, t, enable) ==
    IF t = "S2T" THEN [c EXCEPT !.input_s2t = enable]
    ELSE [c EXCEPT !.input_s2t = enable]

\* set_console_mode on the console `c`
set_console_mode(c, t, enable) ==
    IF t = "S2T" THEN [c EXCEPT !.input_s2t = enable]
    ELSE [c EXCEPT !.result_t2s = enable]

\* one arm of the match of lines 61-79; `c` carries self's two flags, the four
\* locals of the command and the error the loop returned with, if any
match_arg(c, i) ==
    CASE i \in {"--input-s2t", "-i"} -> [c EXCEPT !.command_input_s2t = TRUE]
      [] i \in {"--result-t2s", "-r"} -> [c EXCEPT !.command_result_t2s = TRUE]
      [] i \in {"--translation", "-t"} -> [c EXCEPT !.translation_mode = TRUE]
      [] i \in {"--jyutping", "-j"} -> [c EXCEPT !.jyutping_mode = TRUE]
      [] i = "--set-mode-input-s2t" -> set_console_mode(c, "S2T", TRUE)
      [] i = "--set-mode-result-t2s" -> set_console_mode(c, "T2S", TRUE)
      [] i = "--unset-mode-input-s2t" -> set_console_mode(c, "S2T", FALSE)
      [] i = "--unset-mode-result-t2s" -> set_console_mode(c, "T2S", FALSE)
      [] i = "--unset-mode-all" ->
            set_console_mode(set_console_mode(c, "S2T", FALSE), "T2S", FALSE)
      [] OTHER -> [c EXCEPT !.err = Some(<<"Invaild argument: ", i>>)]

\* the loop of lines 60-80 without its early return
RECURSIVE args_loop_no_return(_, _, _)
args_loop_no_return(c, args, k) ==
    IF k > Len(args) THEN c
    ELSE args_loop_no_return(match_arg(c, args[k]), args, k + 1)

\* the loop of lines 60-80: it returns at the first argument no arm matches
RECURSIVE args_loop(_, _, _)
args_loop(c, args, k) ==
    IF k > Len(args) \/ c.err.some THEN c
    ELSE args_loop(match_arg(c, args[k]), args, k + 1)

\* the dispatch with its two first tests in the other order
dispatch_jyutping_first(c) ==
    IF c.jyutping_mode THEN "search_word_to_jyutping_result"
    ELSE IF c.translation_mode THEN "search_word_to_translation_result"
    ELSE "search_word_to_dict_result"

\* lines 87-115: the one search_word_to_* function the command calls
dispatch(c) ==
    IF c.translation_mode THEN "search_word_to_translation_result"
    ELSE IF c.jyutping_mode THEN "search_word_to_jyutping_result"
    ELSE "search_word_to_dict_result"

\* the conversion of lines 81-86 asked by the command's own flag only
words_for_query_command_only(c, words_mut) ==
    IF c.command_input_s2t
    THEN [k \in 1..Len(words_mut) |-> opencc_convert_S2T(words_mut[k])]
    ELSE words_mut

\* lines 81-86: the words handed to the query
words_for_query(c, words_mut) ==
    IF c.input_s2t \/ c.command_input_s2t
    THEN [k \in 1..Len(words_mut) |-> opencc_convert_S2T(words_mut[k])]
    ELSE words_mut

\* the last argument of every search_word_to_* call
result_flag(c) == c.command_result_t2s \/ c.result_t2s

\* args_runner up to the dispatch: self's flags and the locals after the loop
args_runner(args) ==
    args_loop([input_s2t |-> input_s2t, result_t2s |-> result_t2s,
               command_result_t2s |-> FALSE, command_input_s2t |-> FALSE,
               translation_mode |-> FALSE, jyutping_mode |-> FALSE, err |-> None],
              args, 1)

(***************************************************************************)
(* What a line asks for, read off its tokens.                              *)
(***************************************************************************)
FlagsOf(line) == SelectSeq(line, starts_with_dash)

WordsOf(line) ==
    LET NoDash(x) == x \notin KnownFlags \cup UnknownFlags IN SelectSeq(line, NoDash)

HasUnknown(flags) == \E k \in 1..Len(flags) : flags[k] \notin KnownFlags

\* position, among the flags, of the first one that is not known
FirstUnknown(flags) ==
    CHOOSE k \in 1..Len(flags) :
        /\ flags[k] \notin KnownFlags
        /\ \A m \in 1..(k - 1) : flags[m] \in KnownFlags

\* the flags the loop consumed: all of them, or those before the first unknown
Consumed(flags) ==
    IF HasUnknown(flags) THEN SubSeq(flags, 1, FirstUnknown(flags) - 1) ELSE flags

SetFlag(which) ==
    IF which = "input_s2t" THEN {"--set-mode-input-s2t"} ELSE {"--set-mode-result-t2s"}

UnsetFlag(which) ==
    IF which = "input_s2t" THEN {"--unset-mode-input-s2t", "--unset-mode-all"}
    ELSE {"--unset-mode-result-t2s", "--unset-mode-all"}

\* the most recent set/unset flag for `which` among flags, or `before` if none
MostRecentMode(flags, which, before) ==
    LET hits == {k \in 1..Len(flags) : flags[k] \in SetFlag(which) \cup UnsetFlag(which)}
    IN  IF hits = {} THEN before
        ELSE LET last == CHOOSE k \in hits : \A m \in hits : m <= k
             IN  IF flags[last] \in SetFlag(which) THEN "set" ELSE "unset"

\* the value a session flag has given the most recent set/unset, `start` if none
ModeValue(mode, start) ==
    IF mode = "set" THEN TRUE ELSE IF mode = "unset" THEN FALSE ELSE start

(***************************************************************************)
(* Specification of the console: create_console's loop.                    *)
(***************************************************************************)
Init == NormIdle /\ FetchIdle /\ ConsoleIdle

\* one turn of the loop of create_console: a line is read, split and run; the
\* dispatched search_word_to_* returns Ok or an Err that is printed
RunCommand(line) ==
    /\ pc = "prompt"
    /\ pc' = "ran"
    /\ argument' = line
    /\ pre' = [input_s2t |-> input_s2t, result_t2s |-> result_t2s]
    /\ IF line = <<>>
       THEN /\ outcome' = None
            /\ queries' = <<>>
            /\ printed_error' = FALSE
            /\ UNCHANGED <<input_s2t, result_t2s, last_mode>>
       ELSE LET split == argument_spliter(line)
                c == args_runner(split.args)
                consumed == Consumed(FlagsOf(line))
            IN  /\ input_s2t' = c.input_s2t
                /\ result_t2s' = c.result_t2s
                /\ last_mode' =
                      [which \in {"input_s2t", "result_t2s"} |->
                          MostRecentMode(consumed, which, last_mode[which])]
                /\ IF c.err.some
                   THEN /\ outcome' = Some(Err(c.err.v))
                        /\ queries' = <<>>
                        /\ printed_error' = FALSE
                   ELSE /\ outcome' = Some(Ok(<<>>))
                        /\ queries' = <<[fn |-> dispatch(c),
                                        words |-> words_for_query(c, split.words),
                                        result_t2s |-> result_flag(c)]>>
                        /\ printed_error' \in BOOLEAN
    /\ UNCHANGED <<nvars, fvars>>

\* the loop is back in readline: what the last line left behind is gone,
\* self.input_s2t and self.result_t2s stay
Prompt ==
    /\ pc = "ran"
    /\ pc' = "prompt"
    /\ argument' = <<>>
    /\ pre' = [input_s2t |-> FALSE, result_t2s |-> FALSE]
    /\ outcome' = None
    /\ queries' = <<>>
    /\ printed_error' = FALSE
    /\ UNCHANGED <<input_s2t, result_t2s, last_mode, nvars, fvars>>

\* readline returned Err (end of input): the loop ends
EndOfInput ==
    /\ pc = "prompt"
    /\ pc' = "exit"
    /\ UNCHANGED <<input_s2t, result_t2s, argument, pre, outcome, queries,
                   printed_error, last_mode, nvars, fvars>>

Next ==
    \/ pc = "prompt" /\ \E line \in Lines : RunCommand(line)
    \/ Prompt
    \/ EndOfInput

Spec == Init /\ [][Next]_vars

(***************************************************************************)
(* The claims about the console.                                           *)
(***************************************************************************)
Ran == pc = "ran" /\ argument # <<>>

Failed == Ran /\ outcome.some /\ outcome.v.st = "Err"

Succeeded == Ran /\ outcome.some /\ outcome.v.st = "Ok"

HasFlag(flags, forms) == \E k \in 1..Len(flags) : flags[k] \in forms

Converted(ws) == [k \in 1..Len(ws) |-> opencc_convert_S2T(ws[k])]

Session == [input_s2t |-> input_s2t, result_t2s |-> result_t2s]

\* the session flag `which` after the flags of `flags` were consumed from `before`
AfterFlags(flags, which, before) ==
    ModeValue(MostRecentMode(flags, which, "none"), before)

\* C3 as stated: a command that ends with the invalid-argument error names the
\* first unrecognized dash-token and leaves both session flags as they were
\* before the command.
C3_ErrorLeavesSessionUntouched ==
    Failed =>
        LET flags == FlagsOf(argument) IN
        /\ outcome.v.msg = <<"Invaild argument: ", flags[FirstUnknown(flags)]>>
        /\ input_s2t = pre.input_s2t
        /\ result_t2s = pre.result_t2s

\* C3 as amended: a command ends with the invalid-argument error exactly when one
\* of its dash-tokens is unrecognized; the error names the first such token in
\* left-to-right flag order, no query is dispatched, and each session flag has the
\* value given by the most recent set/unset-mode flag preceding that token in the
\* command, or the value it had before the command if none precedes it.
C3_ErrorKeepsFlagsConsumedBeforeIt ==
    Ran =>
        LET flags == FlagsOf(argument) IN
        /\ Failed <=> HasUnknown(flags)
        /\ Failed =>
              LET before == SubSeq(flags, 1, FirstUnknown(flags) - 1) IN
              /\ outcome.v.msg = <<"Invaild argument: ", flags[FirstUnknown(flags)]>>
              /\ queries = <<>>
              /\ \A which \in {"input_s2t", "result_t2s"} :
                    Session[which] = AfterFlags(before, which, pre[which])

\* C3 witness: a set-mode flag preceded the unrecognized token, and stayed in force.
C3_Witness ==
    /\ Failed
    /\ FlagsOf(argument)[1] = "--set-mode-input-s2t"
    /\ FirstUnknown(FlagsOf(argument)) = 2
    /\ ~pre.input_s2t /\ input_s2t

\* C6: the query of a command gets its words converted exactly when the session's
\* input_s2t, as it stands once the command's flags were consumed, or the
\* command's own -i/--input-s2t asks for it, and gets the result flag result_t2s
\* OR -r/--result-t2s; while the most recent mode flag consumed is a set, commands
\* convert without -i.
C6_QueryGetsEffectiveFlags ==
    Succeeded =>
        LET flags == FlagsOf(argument)
            words == WordsOf(argument)
        IN  /\ Len(queries) = 1
            /\ queries[1].words =
                  IF input_s2t \/ HasFlag(flags, {"-i", "--input-s2t"})
                  THEN Converted(words)
                  ELSE words
            /\ queries[1].result_t2s = (result_t2s \/ HasFlag(flags, {"-r", "--result-t2s"}))
            /\ last_mode["input_s2t"] = "set" => queries[1].words = Converted(words)
            /\ last_mode["result_t2s"] = "set" => queries[1].result_t2s

\* C6 witness: an earlier command set the input mode, and this one, without -i
\* and without any mode flag, had its word converted.
C6_Witness ==
    /\ Succeeded
    /\ pre.input_s2t
    /\ ~HasFlag(FlagsOf(argument), KnownFlags \ {"-r", "-t"})
    /\ WordsOf(argument) = <<"hans">>
    /\ queries[1].words = <<"hant">>

\* C7: each session flag always has the value given by the most recent
\* set/unset-mode flag (or --unset-mode-all) consumed so far, or its starting
\* value if there was none; over one command it goes from its value before the
\* command to the one given by the most recent such flag the command consumed.
\* Nothing else (-i, -r, -t, -j, the words, the query's failure, the return to
\* the prompt) changes it.
C7_SessionFlagFollowsModeFlags ==
    /\ \A which \in {"input_s2t", "result_t2s"} :
          Session[which] = ModeValue(last_mode[which], FALSE)
    /\ Ran =>
          LET consumed == Consumed(FlagsOf(argument)) IN
          \A which \in {"input_s2t", "result_t2s"} :
              Session[which] = AfterFlags(consumed, which, pre[which])

\* C7 witness: a command of per-command flags and a word, whose query failed,
\* left the input mode an earlier command had set.
C7_Witness ==
    /\ Succeeded
    /\ printed_error
    /\ pre.input_s2t /\ input_s2t /\ ~result_t2s
    /\ HasFlag(FlagsOf(argument), {"-r"}) /\ HasFlag(FlagsOf(argument), {"-j"})
    /\ WordsOf(argument) # <<>>

\* C10: a command whose flags are all recognized succeeds and dispatches exactly
\* one query over its words: translation if -t/--translation was given, else
\* jyutping if -j/--jyutping was, else the dictionary query, whether or not that
\* query fails; a command with an unrecognized flag dispatches none.
C10_OneQueryByPriority ==
    Ran =>
        LET flags == FlagsOf(argument)
            words == WordsOf(argument)
        IN  IF HasUnknown(flags)
            THEN Failed /\ queries = <<>> /\ ~printed_error
            ELSE /\ outcome = Some(Ok(<<>>))
                 /\ Len(queries) = 1
                 /\ queries[1].fn =
                       IF HasFlag(flags, {"-t", "--translation"})
                       THEN "search_word_to_translation_result"
                       ELSE IF HasFlag(flags, {"-j", "--jyutping"})
                       THEN "search_word_to_jyutping_result"
                       ELSE "search_word_to_dict_result"
                 /\ queries[1].words \in {words, Converted(words)}

\* C10 witness: -j and -t were both given, translation was dispatched, and its
\* failure was printed while the command succeeded.
C10_Witness ==
    /\ Succeeded
    /\ FlagsOf(argument) = <<"-j", "-t">>
    /\ queries[1].fn = "search_word_to_translation_result"
    /\ printed_error

====
